---- MODULE Spec2Model ----
(***************************************************************************)
(* Model of hslua-packaging/cbits/hslpackaging.c: the cached attribute     *)
(* access of Haskell userdata (hslua_cachedindex, hslua_cachedsetindex,    *)
(* hsluaP_get_caching_table) and the index function of wrapping tables     *)
(* (hslua_wrappedudindex).  The C functions are translated statement by    *)
(* statement over a small model of the Lua C API: a value stack, a heap of *)
(* tables, the user value of each userdata and the metafields of the       *)
(* userdata's class.                                                       *)
(***************************************************************************)
EXTENDS Integers, Sequences, FiniteSets, TLC

\* ------------------------------------------------------------------ bounds
\* Number of distinct plain values a write, a getter or the wrapped
\* userdata can produce.
NumVals == 2

\* ------------------------------------------------------------------ values
\* A Lua value: its type tag, an identity/payload number, a payload string.
V(ty, id, s) == [ty |-> ty, id |-> id, s |-> s]

LUA_TNONE     == "none"
LUA_TNIL      == "nil"
LUA_TNUMBER   == "number"
LUA_TSTRING   == "string"
LUA_TTABLE    == "table"
LUA_TFUNCTION == "function"
LUA_TUSERDATA == "userdata"

Nil      == V(LUA_TNIL, 0, "")
Num(n)   == V(LUA_TNUMBER, n, "")
Str(s)   == V(LUA_TSTRING, 0, s)
Tbl(i)   == V(LUA_TTABLE, i, "")
Ud(i)    == V(LUA_TUSERDATA, i, "")
Getter(k) == V(LUA_TFUNCTION, 0, k.s)      \* the computed-field function of key k
Method(k) == V(LUA_TFUNCTION, 1, k.s)      \* the callable member of key k

\* The proxies (full userdata with a user value slot) and the userdata a
\* wrapping table wraps.
Proxies   == {1, 2}
WrappedUd == Ud(0)

\* Attribute keys (valid table keys, so never nil), and the reserved key of
\* wrapping tables.
K1 == Str("k1")
K2 == Str("k2")
ReservedKey == Str("_hslua_value")
AttrKeys  == {K1, K2}
TableKeys == AttrKeys \cup {ReservedKey}

PlainVals == {Num(n) : n \in 1..NumVals}

\* Error values raised by the Lua runtime and by this file.
CorruptedMsg == Str("Corrupted object, wrapped userdata not found.")
NilIndexMsg  == Str("table index is nil")
ValueExpectedMsg == Str("bad argument #3 (value expected)")
TableExpectedMsg == Str("bad argument #1 (table expected)")
NativeErr    == Str("native call failed")
IndexErr     == Str("attempt to index a userdata value")

EmptyTable == [k \in TableKeys |-> Nil]

\* Fixed table identities of the initial heap.
GettersId == 1
MethodsId == 2
WrapperId == 3

VARIABLES
  heap,       \* sequence of tables: heap[i] maps each key to its value (Nil = unbound)
  uservalue,  \* uservalue[p]: the user value of proxy p (Nil or its caching table)
  meta,       \* metafields of the proxies' class: [getters, methods]
  last,       \* the last call of one of the C functions and its outcome
  prov,       \* prov[p][k]: the last event that resolved or set key k of proxy p,
              \* cache hits aside: a write, a getter result, a method lookup
  wprov       \* wprov[k]: the last event that set key k of the wrapping table

vars == <<heap, uservalue, meta, last, prov, wprov>>

\* ------------------------------------------------- the Lua state of one call
\* status: "run" while the C function executes, "ret" after its return,
\* (at names the return statement taken),
\* "err" after a Lua error was raised (lua_error, or an error of an API call
\* or of a called function), "ub" after an API call on an operand the API
\* does not accept (undefined behaviour in a release build of Lua).
\* rv is the value returned by the last API call that returns a type.
\* low, gcalls, udq and wrote observe the run: the lowest stack height,
\* the number of getter calls, the number of lookups on the wrapped
\* userdata, and the table operand of lua_rawset/lua_setuservalue.
NewState(args) ==
  [stack |-> args, heap |-> heap, uservalue |-> uservalue, meta |-> meta,
   status |-> "run", rv |-> LUA_TNONE, nret |-> 0, at |-> "", err |-> Nil,
   low |-> Len(args), gcalls |-> 0, udq |-> 0, wrote |-> Nil]

Min(a, b) == IF a < b THEN a ELSE b

SetStack(m, s) == [m EXCEPT !.stack = s, !.low = Min(@, Len(s))]

Raise(m, e)  == [m EXCEPT !.status = "err", !.err = e]
Undefined(m) == [m EXCEPT !.status = "ub"]
\* return n at the return statement labelled at.
Return(m, n, at) ==
  IF m.status = "run" THEN [m EXCEPT !.status = "ret", !.nret = n, !.at = at] ELSE m

lua_absindex(m, idx) == IF idx > 0 THEN idx ELSE Len(m.stack) + idx + 1

ValidIndex(m, idx) == lua_absindex(m, idx) \in 1..Len(m.stack)

At(m, idx) == m.stack[lua_absindex(m, idx)]

lua_type(m, idx) == IF ValidIndex(m, idx) THEN At(m, idx).ty ELSE LUA_TNONE

Push(m, v) == SetStack(m, Append(m.stack, v))

lua_settop(m, n) ==
  IF m.status # "run" THEN m
  ELSE IF n <= Len(m.stack) THEN SetStack(m, SubSeq(m.stack, 1, n))
  ELSE SetStack(m, m.stack \o [i \in 1..(n - Len(m.stack)) |-> Nil])

lua_pop(m, n) ==
  IF m.status # "run" THEN m
  ELSE IF n > Len(m.stack) THEN Undefined(m)
  ELSE SetStack(m, SubSeq(m.stack, 1, Len(m.stack) - n))

lua_pushvalue(m, idx) ==
  IF m.status # "run" THEN m
  ELSE IF ~ValidIndex(m, idx) THEN Undefined(m)
  ELSE Push(m, At(m, idx))

lua_pushnil(m) == IF m.status # "run" THEN m ELSE Push(m, Nil)

lua_pushliteral(m, s) == IF m.status # "run" THEN m ELSE Push(m, Str(s))

\* Pops the key, pushes t[key] without metamethods; returns the type.
lua_rawget(m, idx) ==
  IF m.status # "run" THEN m
  ELSE IF ~ValidIndex(m, idx) \/ Len(m.stack) < 1 THEN Undefined(m)
  ELSE LET t   == At(m, idx)
           key == m.stack[Len(m.stack)]
           val == IF key \in TableKeys THEN m.heap[t.id][key] ELSE Nil
       IN IF t.ty # LUA_TTABLE THEN Undefined(m)
          ELSE [SetStack(m, SubSeq(m.stack, 1, Len(m.stack) - 1) \o <<val>>)
                  EXCEPT !.rv = val.ty]

\* t[key] := value without metamethods, key below the value on the top;
\* pops both.  A nil key raises "table index is nil"; a nil value unbinds.
lua_rawset(m, idx) ==
  IF m.status # "run" THEN m
  ELSE IF ~ValidIndex(m, idx) \/ Len(m.stack) < 2 THEN Undefined(m)
  ELSE LET t   == At(m, idx)
           key == m.stack[Len(m.stack) - 1]
           val == m.stack[Len(m.stack)]
           popped == SetStack(m, SubSeq(m.stack, 1, Len(m.stack) - 2))
       IN IF t.ty # LUA_TTABLE THEN Undefined(m)
          ELSE IF key \notin TableKeys THEN Raise(m, NilIndexMsg)
          ELSE [popped EXCEPT !.heap[t.id][key] = val, !.wrote = t]

\* Moves the top element into position idx, shifting up the elements above.
lua_insert(m, idx) ==
  IF m.status # "run" THEN m
  ELSE IF ~ValidIndex(m, idx) THEN Undefined(m)
  ELSE LET n == Len(m.stack)
           a == lua_absindex(m, idx)
       IN SetStack(m, [i \in 1..n |-> IF i < a THEN m.stack[i]
                                      ELSE IF i = a THEN m.stack[n]
                                      ELSE m.stack[i - 1]])

lua_createtable(m) ==
  IF m.status # "run" THEN m
  ELSE Push([m EXCEPT !.heap = Append(@, EmptyTable)], Tbl(Len(m.heap) + 1))

IsProxy(v) == v.ty = LUA_TUSERDATA /\ v.id \in Proxies

\* Pushes the user value of the full userdata at idx; returns its type.
lua_getuservalue(m, idx) ==
  IF m.status # "run" THEN m
  ELSE IF ~ValidIndex(m, idx) THEN Undefined(m)
  ELSE LET u == At(m, idx)
       IN IF ~IsProxy(u) THEN Undefined(m)
          ELSE [Push(m, m.uservalue[u.id]) EXCEPT !.rv = m.uservalue[u.id].ty]

\* Pops a value and makes it the user value of the full userdata at idx.
lua_setuservalue(m, idx) ==
  IF m.status # "run" THEN m
  ELSE IF ~ValidIndex(m, idx) \/ Len(m.stack) < 1 THEN Undefined(m)
  ELSE LET u == At(m, idx)
           val == m.stack[Len(m.stack)]
           popped == SetStack(m, SubSeq(m.stack, 1, Len(m.stack) - 1))
       IN IF ~IsProxy(u) THEN Undefined(m)
          ELSE [popped EXCEPT !.uservalue[u.id] = val, !.wrote = u]

\* Pushes field e of the metatable of the object at obj and returns its
\* type; pushes nothing and returns LUA_TNIL when there is no such field.
luaL_getmetafield(m, obj, e) ==
  IF m.status # "run" THEN m
  ELSE LET field == IF IsProxy(At(m, obj)) THEN m.meta[e] ELSE Nil
       IN IF field.ty = LUA_TNIL THEN [m EXCEPT !.rv = LUA_TNIL]
          ELSE [Push(m, field) EXCEPT !.rv = field.ty]

\* Variant of lua_call that runs the function in protected mode and hands
\* its error value back as the result.
lua_call_protected(m, nargs, out) ==
  IF m.status # "run" THEN m
  ELSE LET popped == SetStack(m, SubSeq(m.stack, 1, Len(m.stack) - nargs - 1))
       IN Push([popped EXCEPT !.gcalls = @ + 1], out.val)

\* The Lua state after the called function has run.  A function whose
\* outcome has a field write, <<proxy, key, value>>, assigns that field of
\* the proxy while it runs: hslua_cachedsetindex runs as __newindex.  The
\* caller has attached the proxy's caching table before (line 72), so what
\* that run does is lines 113-115 with a user value that is a table: it
\* stores the value under the key in that table.
Reenter(m, out) ==
  IF "write" \notin DOMAIN out THEN m
  ELSE IF out.write = << >> THEN m
  ELSE LET t == m.uservalue[out.write[1].id]
       IN IF t.ty # LUA_TTABLE THEN Undefined(m)
          ELSE [m EXCEPT !.heap[t.id][out.write[2]] = out.write[3]]

\* Calls the function below its nargs arguments; out is what the called
\* function does: [kind |-> "ret", val |-> v] or [kind |-> "err", val |-> e],
\* after the write it makes on the proxy, if out has one.
lua_call(m, nargs, out) ==
  IF m.status # "run" THEN m
  ELSE IF Len(m.stack) < nargs + 1 THEN Undefined(m)
  ELSE LET f == m.stack[Len(m.stack) - nargs]
           popped == SetStack(m, SubSeq(m.stack, 1, Len(m.stack) - nargs - 1))
           called == Reenter([popped EXCEPT !.gcalls = @ + 1], out)
       IN IF f.ty # LUA_TFUNCTION THEN Raise(m, Str("attempt to call a non-function value"))
          ELSE IF out.kind = "err" THEN Raise(called, out.val)
          ELSE Push(called, out.val)

\* Pops the key and pushes t[key], running the __index metamethod of a
\* userdata t; out is what that lookup does.  Returns the type.
lua_gettable(m, idx, out) ==
  IF m.status # "run" THEN m
  ELSE IF ~ValidIndex(m, idx) \/ Len(m.stack) < 1 THEN Undefined(m)
  ELSE LET t == At(m, idx)
           popped == SetStack(m, SubSeq(m.stack, 1, Len(m.stack) - 1))
           asked == [popped EXCEPT !.udq = @ + 1]
       IN IF t.ty # LUA_TUSERDATA THEN Raise(m, IndexErr)
          ELSE IF out.kind = "err" THEN Raise(asked, out.val)
          ELSE [Push(asked, out.val) EXCEPT !.rv = out.val.ty]

lua_error(m) ==
  IF m.status # "run" THEN m ELSE Raise(m, m.stack[Len(m.stack)])

luaL_checktype(m, arg, t) ==
  IF m.status # "run" THEN m
  ELSE IF lua_type(m, arg) # t THEN Raise(m, TableExpectedMsg) ELSE m

luaL_checkany(m, arg) ==
  IF m.status # "run" THEN m
  ELSE IF lua_type(m, arg) = LUA_TNONE THEN Raise(m, ValueExpectedMsg) ELSE m

\* ------------------------------------------------------- the C functions

\* Variant of hsluaP_get_caching_table that attaches a new table whether or
\* not the userdata already has one.
get_caching_table_always_new(m, idx) ==
  LET s1 == lua_getuservalue(m, idx)
      s2 == lua_pop(s1, 1)
      s3 == lua_createtable(s2)
      s4 == lua_pushvalue(s3, -1)
  IN lua_setuservalue(s4, idx)

\* Variant of the helper that keeps one caching table for the whole class:
\* a proxy without a user value is given the first caching table created.
get_caching_table_shared(m, idx) ==
  LET s1 == lua_getuservalue(m, idx)
      s2 == lua_pop(s1, 1)
      s3 == IF s2.status = "run" /\ Len(s2.heap) > WrapperId
            THEN Push(s2, Tbl(WrapperId + 1))
            ELSE lua_createtable(s2)
      s4 == lua_pushvalue(s3, -1)
  IN IF s1.rv = LUA_TNIL THEN lua_setuservalue(s4, idx) ELSE s1

\* void hsluaP_get_caching_table(lua_State *L, int idx)
hsluaP_get_caching_table(m, idx) ==
  LET absidx == lua_absindex(m, idx)      \* computed, never used
      s1 == lua_getuservalue(m, idx)
  IN IF s1.rv = LUA_TNIL
     THEN LET s2 == lua_pop(s1, 1)
              s3 == lua_createtable(s2)
              s4 == lua_pushvalue(s3, -1)
          IN lua_setuservalue(s4, idx)
     ELSE s1

\* Variant of the getters tier that returns the getter's result without
\* storing it in the caching table.
cachedindex_getters_no_store(m, gout) ==
  LET s6 == luaL_getmetafield(m, 1, "getters")
      g1 == lua_pushvalue(s6, 2)
      g2 == lua_rawget(g1, -2)
      g3 == lua_pushvalue(g2, 1)
      g4 == lua_call(g3, 1, gout)
  IN IF s6.rv = LUA_TTABLE
     THEN IF g2.rv # LUA_TNIL THEN Return(g4, 1, "getter") ELSE lua_pop(g2, 1)
     ELSE s6

\* hslua_cachedindex, the getters tier: the state at its return statement,
\* or the running state that falls through to the methods tier.
cachedindex_getters(m, gout) ==
  LET s6 == luaL_getmetafield(m, 1, "getters")
      g1 == lua_pushvalue(s6, 2)
      g2 == lua_rawget(g1, -2)
      g3 == lua_pushvalue(g2, 1)
      g4 == lua_call(g3, 1, gout)
      g5 == lua_pushvalue(g4, 2)
      g6 == lua_pushvalue(g5, -2)
      g7 == lua_rawset(g6, 3)
  IN IF s6.rv = LUA_TTABLE
     THEN IF g2.rv # LUA_TNIL THEN Return(g7, 1, "getter") ELSE lua_pop(g2, 1)
     ELSE s6

\* Variant of the methods tier that stores the method it found in the
\* caching table, as the getters tier does with a getter's result.
cachedindex_methods_cached(m) ==
  LET s8 == luaL_getmetafield(m, 1, "methods")
      m1 == lua_pushvalue(s8, 2)
      m2 == lua_rawget(m1, -2)
      m3 == lua_pushvalue(m2, 2)
      m4 == lua_pushvalue(m3, -2)
      m5 == lua_rawset(m4, 3)
  IN IF s8.rv = LUA_TTABLE THEN Return(m5, 1, "methods")
     ELSE Return(lua_pushnil(lua_pop(s8, 1)), 1, "notfound")

\* Variant of the methods tier that pops two slots instead of one before
\* the final return of nil.
cachedindex_methods_pop_two(m) ==
  LET s8 == luaL_getmetafield(m, 1, "methods")
      m1 == lua_pushvalue(s8, 2)
      m2 == lua_rawget(m1, -2)
  IN IF s8.rv = LUA_TTABLE THEN Return(m2, 1, "methods")
     ELSE Return(lua_pushnil(lua_pop(s8, 2)), 1, "notfound")

\* Variant of the methods tier that forgets to push nil before the final
\* return.
cachedindex_methods_no_pushnil(m) ==
  LET s8 == luaL_getmetafield(m, 1, "methods")
      m1 == lua_pushvalue(s8, 2)
      m2 == lua_rawget(m1, -2)
  IN IF s8.rv = LUA_TTABLE THEN Return(m2, 1, "methods")
     ELSE Return(lua_pop(s8, 1), 1, "notfound")

\* hslua_cachedindex, the methods tier and the final return of nil.
cachedindex_methods(m) ==
  LET s8 == luaL_getmetafield(m, 1, "methods")
      m1 == lua_pushvalue(s8, 2)
      m2 == lua_rawget(m1, -2)
  IN IF s8.rv = LUA_TTABLE THEN Return(m2, 1, "methods")
     ELSE Return(lua_pushnil(lua_pop(s8, 1)), 1, "notfound")

\* Variant of hslua_cachedindex that consults the methods table before the
\* getters table.
cachedindex_methods_first(m, gout) ==
  LET s1 == lua_settop(m, 2)
      s2 == hsluaP_get_caching_table(s1, 1)
      s3 == lua_pushvalue(s2, 2)
      s4 == lua_rawget(s3, 3)
      s5 == lua_pop(s4, 1)
      mt == cachedindex_methods(s5)
      s7 == cachedindex_getters(s5, gout)
  IN IF s4.rv # LUA_TNIL THEN Return(s4, 1, "cache")
     ELSE IF mt.at = "methods" /\ mt.stack[Len(mt.stack)] # Nil THEN mt
     ELSE IF s7.status # "run" THEN s7
     ELSE cachedindex_methods(s7)

\* int hslua_cachedindex(lua_State *L); gout is what the getter does if called.
hslua_cachedindex(m, gout) ==
  LET s1 == lua_settop(m, 2)
      s2 == hsluaP_get_caching_table(s1, 1)
      s3 == lua_pushvalue(s2, 2)
      s4 == lua_rawget(s3, 3)
      s5 == lua_pop(s4, 1)
      s7 == cachedindex_getters(s5, gout)
  IN IF s4.rv # LUA_TNIL THEN Return(s4, 1, "cache")
     ELSE IF s7.status # "run" THEN s7
     ELSE cachedindex_methods(s7)

\* Variant of hslua_cachedsetindex that attaches a fresh caching table on
\* every write.
cachedsetindex_new_table(m) ==
  LET s1 == luaL_checkany(m, 3)
      s2 == lua_settop(s1, 3)
      s3 == get_caching_table_always_new(s2, 1)
      s4 == lua_insert(s3, 2)
      s5 == lua_rawset(s4, 2)
  IN Return(s5, 0, "set")

\* Variant of hslua_cachedsetindex that never stores the value.
cachedsetindex_no_rawset(m) ==
  LET s1 == luaL_checkany(m, 3)
      s2 == lua_settop(s1, 3)
      s3 == hsluaP_get_caching_table(s2, 1)
      s4 == lua_insert(s3, 2)
  IN Return(s4, 0, "set")

\* Variant of hslua_cachedsetindex that checks for the value argument only
\* after lua_settop has padded the stack.
cachedsetindex_check_late(m) ==
  LET s1 == lua_settop(m, 3)
      s2 == luaL_checkany(s1, 3)
      s3 == hsluaP_get_caching_table(s2, 1)
      s4 == lua_insert(s3, 2)
      s5 == lua_rawset(s4, 2)
  IN Return(s5, 0, "set")

\* int hslua_cachedsetindex(lua_State *L)
hslua_cachedsetindex(m) ==
  LET s1 == luaL_checkany(m, 3)
      s2 == lua_settop(s1, 3)
      s3 == hsluaP_get_caching_table(s2, 1)
      s4 == lua_insert(s3, 2)
      s5 == lua_rawset(s4, 2)
  IN Return(s5, 0, "set")

\* Variant of the delegation that remembers a key the wrapped userdata does
\* not have by binding it to a placeholder in the wrapping table.
wrappedudindex_delegate_negative_cache(m, uout) ==
  LET s6 == lua_pushliteral(m, ReservedKey.s)
      s7 == lua_rawget(s6, 1)
      s8 == lua_pushvalue(s7, 2)
      s9 == lua_gettable(s8, -2, uout)
      w1 == lua_pushvalue(s9, 2)
      w2 == lua_pushvalue(w1, -2)
      w3 == lua_rawset(w2, 1)
      n1 == lua_pushvalue(s9, 2)
      n2 == IF n1.status # "run" THEN n1 ELSE Push(n1, Num(0))
      n3 == lua_rawset(n2, 1)
  IN IF s7.rv # LUA_TUSERDATA THEN lua_error(lua_pushliteral(s7, CorruptedMsg.s))
     ELSE IF s9.rv # LUA_TNIL THEN Return(w3, 1, "wrapped")
     ELSE Return(lua_pushnil(n3), 1, "notfound")

\* Variant of the delegation that takes any non-nil value under the
\* reserved key for the wrapped userdata.
wrappedudindex_delegate_any(m, uout) ==
  LET s6 == lua_pushliteral(m, ReservedKey.s)
      s7 == lua_rawget(s6, 1)
      s8 == lua_pushvalue(s7, 2)
      s9 == lua_gettable(s8, -2, uout)
      w1 == lua_pushvalue(s9, 2)
      w2 == lua_pushvalue(w1, -2)
      w3 == lua_rawset(w2, 1)
  IN IF s7.rv = LUA_TNIL THEN lua_error(lua_pushliteral(s7, CorruptedMsg.s))
     ELSE IF s9.rv # LUA_TNIL THEN Return(w3, 1, "wrapped")
     ELSE Return(lua_pushnil(s9), 1, "notfound")

\* Variant of the delegation that returns the value found in the wrapped
\* userdata without storing it in the wrapping table.
wrappedudindex_delegate_no_store(m, uout) ==
  LET s6 == lua_pushliteral(m, ReservedKey.s)
      s7 == lua_rawget(s6, 1)
      s8 == lua_pushvalue(s7, 2)
      s9 == lua_gettable(s8, -2, uout)
  IN IF s7.rv # LUA_TUSERDATA THEN lua_error(lua_pushliteral(s7, CorruptedMsg.s))
     ELSE IF s9.rv # LUA_TNIL THEN Return(s9, 1, "wrapped")
     ELSE Return(lua_pushnil(s9), 1, "notfound")

\* hslua_wrappedudindex after a miss in the wrapping table: fetch the
\* wrapped userdata from the reserved key and look the key up in it; uout
\* is what that lookup does if it is made.
wrappedudindex_delegate(m, uout) ==
  LET s6 == lua_pushliteral(m, ReservedKey.s)
      s7 == lua_rawget(s6, 1)
      s8 == lua_pushvalue(s7, 2)
      s9 == lua_gettable(s8, -2, uout)
      w1 == lua_pushvalue(s9, 2)
      w2 == lua_pushvalue(w1, -2)
      w3 == lua_rawset(w2, 1)
  IN IF s7.rv # LUA_TUSERDATA THEN lua_error(lua_pushliteral(s7, CorruptedMsg.s))
     ELSE IF s9.rv # LUA_TNIL THEN Return(w3, 1, "wrapped")
     ELSE Return(lua_pushnil(s9), 1, "notfound")

\* int hslua_wrappedudindex(lua_State *L)
hslua_wrappedudindex(m, uout) ==
  LET s1 == luaL_checktype(m, 1, LUA_TTABLE)
      s2 == lua_settop(s1, 2)
      s3 == lua_pushvalue(s2, 2)
      s4 == lua_rawget(s3, 1)
  IN IF s4.rv # LUA_TNIL THEN Return(s4, 1, "local")
     ELSE wrappedudindex_delegate(lua_pop(s4, 1), uout)

\* ------------------------------------------------------------ the system
NoValue == V(LUA_TNONE, 0, "")

\* What a called getter, or the lookup on the wrapped userdata, can do:
\* return a value (nil included) or raise an error.
Outcomes ==
  {[kind |-> "ret", val |-> v] : v \in PlainVals \cup {Nil}}
    \cup {[kind |-> "err", val |-> NativeErr]}

NoOutcome == [kind |-> "", val |-> NoValue]

\* The record of a call: the function, its arguments, how it ended and what
\* it returned or raised, with the observations of the run; out is the
\* outcome of the getter or wrapped lookup, if one was made; low is the
\* least height the stack had, height its height and top its top element
\* at the end, and wrote the object the last lua_rawset or lua_setuservalue
\* stored into.  tick
\* alternates, so that a call repeated with the same outcome is a step.
Log(fn, args, m, out) ==
  [fn |-> fn, self |-> args[1], key |-> args[2],
   val |-> IF Len(args) >= 3 THEN args[3] ELSE NoValue,
   status |-> m.status, at |-> m.at,
   ret |-> IF m.status = "ret" /\ m.nret = 1 THEN m.stack[Len(m.stack)] ELSE NoValue,
   err |-> IF m.status = "err" THEN m.err ELSE NoValue,
   gcalls |-> m.gcalls, udq |-> m.udq,
   out |-> IF m.gcalls + m.udq > 0 THEN out ELSE NoOutcome,
   low |-> m.low, height |-> Len(m.stack), wrote |-> m.wrote,
   top |-> IF Len(m.stack) > 0 THEN m.stack[Len(m.stack)] ELSE NoValue,
   tick |-> 1 - last.tick]

NoCall ==
  [fn |-> "", self |-> Nil, key |-> Nil, val |-> NoValue, status |-> "", at |-> "",
   ret |-> NoValue, err |-> NoValue, gcalls |-> 0, udq |-> 0, out |-> NoOutcome,
   low |-> 0, height |-> 0, wrote |-> Nil, top |-> NoValue,
   tick |-> 0]

HostStep(fn, key, v) ==
  [NoCall EXCEPT !.fn = fn, !.key = key, !.val = v, !.tick = 1 - last.tick]

Event(by, v) == [by |-> by, val |-> v]
NoEvent == Event("none", Nil)

\* The caching table of proxy p as a mapping; no table reads as no binding.
Cache(p) == IF uservalue[p].ty = LUA_TTABLE THEN heap[uservalue[p].id] ELSE EmptyTable

MetaValues == {Nil, Num(0), Tbl(GettersId), Tbl(MethodsId)}

TypeOK ==
  /\ uservalue \in [Proxies -> {Nil} \cup {Tbl(i) : i \in 1..Len(heap)}]
  /\ \A i \in 1..Len(heap) : DOMAIN heap[i] = TableKeys
  /\ meta \in [{"getters", "methods"} -> MetaValues]

\* The class has a methods table binding K1, and a getters table to which
\* the host adds getters; either metafield may be missing or no table.
\* The wrapping table wraps WrappedUd.
Init ==
  /\ heap = << EmptyTable,
               [EmptyTable EXCEPT ![K1] = Method(K1)],
               [EmptyTable EXCEPT ![ReservedKey] = WrappedUd] >>
  /\ uservalue = [p \in Proxies |-> Nil]
  /\ meta \in {f \in [{"getters", "methods"} -> MetaValues] :
                 /\ f["getters"] # Tbl(MethodsId)
                 /\ f["methods"] # Tbl(GettersId)}
  /\ last = NoCall
  /\ prov = [p \in Proxies |-> [k \in AttrKeys |-> NoEvent]]
  /\ wprov = [k \in AttrKeys |-> NoEvent]

\* obj[key] on proxy p: the __index metamethod.
CachedIndex(p, key, gout) ==
  LET args == <<Ud(p), key>>
      m == hslua_cachedindex(NewState(args), gout)
  IN /\ heap' = m.heap
     /\ uservalue' = m.uservalue
     /\ last' = Log("cachedindex", args, m, gout)
     /\ prov' = IF m.status = "ret" /\ m.at = "getter"
                  THEN [prov EXCEPT ![p][key] = Event("getter", gout.val)]
                ELSE IF m.status = "ret" /\ m.at = "methods" /\ key \in AttrKeys
                        /\ meta["methods"].ty = LUA_TTABLE
                        /\ heap[meta["methods"].id][key] # Nil
                  THEN [prov EXCEPT ![p][key] = Event("method", heap[meta["methods"].id][key])]
                ELSE prov
     /\ UNCHANGED <<meta, wprov>>

\* obj[key] = value on proxy p: the __newindex metamethod, or a direct call
\* of the C function with the arguments args.
CachedSetIndex(p, args) ==
  LET m == hslua_cachedsetindex(NewState(args))
  IN /\ heap' = m.heap
     /\ uservalue' = m.uservalue
     /\ last' = Log("cachedsetindex", args, m, NoOutcome)
     /\ prov' = IF m.status = "ret"
                THEN [prov EXCEPT ![p][args[2]] =
                        Event("write", IF Len(args) >= 3 THEN args[3] ELSE NoValue)]
                ELSE prov
     /\ UNCHANGED <<meta, wprov>>

\* The host registers a getter for key in the class's getters table.
AddGetter(key) ==
  /\ meta["getters"] = Tbl(GettersId)
  /\ heap[GettersId][key] = Nil
  /\ heap' = [heap EXCEPT ![GettersId][key] = Getter(key)]
  /\ last' = HostStep("addgetter", key, NoValue)
  /\ UNCHANGED <<uservalue, meta, prov, wprov>>

WriteVals == PlainVals \cup {Nil, Method(K1)}

\* Reads and writes of the proxies in P with the keys in Ks.
ProxyStep(P, Ks) ==
  \/ \E p \in P, key \in Ks, gout \in Outcomes : CachedIndex(p, key, gout)
  \/ \E p \in P, key \in Ks :
       \E args \in {<<Ud(p), key>>} \cup {<<Ud(p), key, v>> : v \in WriteVals} :
         CachedSetIndex(p, args)

\* The calls are made on one proxy; the second proxy of Proxies stays
\* untouched, without a caching table.  The getter a read calls is a
\* function that returns or raises; it makes no call on the proxy itself
\* (SpecReentrant has getters that do).
Next ==
  \/ ProxyStep({1}, AttrKeys)
  \/ \E key \in AttrKeys : AddGetter(key)

Spec == Init /\ [][Next]_vars

\* What a run that ended in undefined behaviour can leave behind.  The one
\* such operation within reach of this file is lua_setuservalue on a stack
\* slot that holds no full userdata: a build with API checks aborts at the
\* call, a build without them stores through the object found there and
\* pops the value.  No user value of a proxy is set either way.
UbOutcomes(m) ==
  { [m EXCEPT !.at = "abort"],
    [SetStack(m, SubSeq(m.stack, 1, Len(m.stack) - 1)) EXCEPT !.at = "stray"] }

\* A C function calls hsluaP_get_caching_table(L, idx) with the proxy p and
\* a key on its stack.  The table of a run that failed is garbage.
GetCachingTable(p, key, idx) ==
  LET args == <<Ud(p), key>>
      m == hsluaP_get_caching_table(NewState(args), idx)
  IN \E o \in (IF m.status = "ub" THEN UbOutcomes(m) ELSE {Return(m, 0, "helper")}) :
       /\ heap' = IF o.status = "ub" THEN heap ELSE o.heap
       /\ uservalue' = o.uservalue
       /\ last' = Log("get_caching_table", <<Ud(p), key, Num(idx)>>, o, NoOutcome)
       /\ UNCHANGED <<meta, prov, wprov>>

\* The helper called with every index that names the proxy, the positive
\* one and the negative one, between reads and writes of the proxy.
NextHelper ==
  \/ \E idx \in {1, -2} : GetCachingTable(1, K1, idx)
  \/ ProxyStep({1}, {K1})

SpecHelper == Init /\ [][NextHelper]_vars

\* What a getter that uses the proxy it is given can do: assign a field of
\* that proxy (to a value that is not nil, so that the getter itself unbinds
\* nothing) or leave it alone, and then return a value or raise an error.
ReentrantOutcomes(p) ==
  {[kind |-> o.kind, val |-> o.val, write |-> w] :
     o \in Outcomes,
     w \in {<< >>} \cup {<<Ud(p), k, v>> : k \in AttrKeys, v \in PlainVals}}

\* obj[key] on proxy p where the getter, if one is called, does gout.  The
\* getter's own write is recorded like any other write.
ReentrantIndex(p, key, gout) ==
  LET args == <<Ud(p), key>>
      m == hslua_cachedindex(NewState(args), gout)
      written == IF m.gcalls > 0 /\ gout.write # << >>
                 THEN [prov EXCEPT ![p][gout.write[2]] = Event("write", gout.write[3])]
                 ELSE prov
  IN /\ heap' = m.heap
     /\ uservalue' = m.uservalue
     /\ last' = Log("cachedindex", args, m, gout)
     /\ prov' = IF m.status = "ret" /\ m.at = "getter"
                THEN [written EXCEPT ![p][key] = Event("getter", gout.val)]
                ELSE written
     /\ UNCHANGED <<meta, wprov>>

\* Reads of one proxy whose getters may write to it, writes, and getters
\* being registered.
NextReentrant ==
  \/ \E key \in AttrKeys : \E gout \in ReentrantOutcomes(1) : ReentrantIndex(1, key, gout)
  \/ \E key \in AttrKeys, v \in PlainVals \cup {Nil} : CachedSetIndex(1, <<Ud(1), key, v>>)
  \/ \E key \in AttrKeys : AddGetter(key)

SpecReentrant == Init /\ [][NextReentrant]_vars

\* Both proxies of the class are read and written, with one key.
NextIso ==
  \/ ProxyStep(Proxies, {K1})
  \/ AddGetter(K1)

SpecIso == Init /\ [][NextIso]_vars

\* ------------------------------------------------- the wrapping table
\* t[key] on the wrapping table: the __index metamethod.
WrappedUdIndex(self, key, uout) ==
  LET args == <<self, key>>
      m == hslua_wrappedudindex(NewState(args), uout)
  IN /\ heap' = m.heap
     /\ uservalue' = m.uservalue
     /\ last' = Log("wrappedudindex", args, m, uout)
     /\ wprov' = IF m.status = "ret" /\ m.at = "wrapped"
                 THEN [wprov EXCEPT ![key] = Event("wrapped", uout.val)]
                 ELSE wprov
     /\ UNCHANGED <<meta, prov>>

\* Lua code assigns a field of the wrapping table (a plain table): an
\* attribute, or the reserved key, which it can unset or overwrite.
WrapperAssign(key, v) ==
  /\ heap[WrapperId][key] # v
  /\ heap' = [heap EXCEPT ![WrapperId][key] = v]
  /\ last' = HostStep("assign", key, v)
  /\ wprov' = IF key \in AttrKeys THEN [wprov EXCEPT ![key] = Event("assign", v)] ELSE wprov
  /\ UNCHANGED <<uservalue, meta, prov>>

NextW ==
  \/ \E self \in {Tbl(WrapperId), WrappedUd}, key \in TableKeys, uout \in Outcomes :
       WrappedUdIndex(self, key, uout)
  \/ \E key \in AttrKeys, v \in PlainVals \cup {Nil} : WrapperAssign(key, v)
  \/ \E v \in {Nil, Num(0), WrappedUd} : WrapperAssign(ReservedKey, v)

SpecW == Init /\ [][NextW]_vars

\* ------------------------------------------------------------ properties
\* The step is a call of hslua_cachedindex(p, k) / hslua_cachedsetindex(p, k, ..)
\* / hslua_wrappedudindex(wrapping table, k); last' describes the call.
ReadStep(p, k) ==
  last'.tick # last.tick /\ last'.fn = "cachedindex" /\ last'.self = Ud(p) /\ last'.key = k

WriteStep(p, k) ==
  last'.tick # last.tick /\ last'.fn = "cachedsetindex" /\ last'.self = Ud(p) /\ last'.key = k

WrappedStep(k) ==
  /\ last'.tick # last.tick /\ last'.fn = "wrappedudindex"
  /\ last'.self = Tbl(WrapperId) /\ last'.key = k

\* The class's getters table has a getter for k / what its methods table
\* binds k to.
HasGetter(k) ==
  meta["getters"].ty = LUA_TTABLE /\ heap[meta["getters"].id][k] # Nil

MethodOf(k) ==
  IF meta["methods"].ty = LUA_TTABLE THEN heap[meta["methods"].id][k] ELSE Nil

Wrapper == heap[WrapperId]

Corrupted == Wrapper[ReservedKey].ty # LUA_TUSERDATA

\* C1 as stated: whenever the last write of key k on proxy p stored v (any
\* v, nil included) and nothing resolved k since, a read of k returns v.
C1_ReadReturnsLastWrite ==
  [][\A p \in Proxies, k \in AttrKeys :
       (ReadStep(p, k) /\ prov[p][k].by = "write")
         => (last'.status = "ret" /\ last'.ret = prov[p][k].val)]_vars

\* C1 amended: a read of k after a write of a non-nil v returns v from the
\* cache and calls no getter, whatever getter the class has; after a write
\* of nil the key is unbound, and the read is resolved by the getters and
\* methods tiers.
C1_WriteShadowsGetter ==
  [][\A p \in Proxies, k \in AttrKeys :
       (ReadStep(p, k) /\ prov[p][k].by = "write")
         => IF prov[p][k].val # Nil
            THEN /\ last'.status = "ret" /\ last'.at = "cache"
                 /\ last'.ret = prov[p][k].val /\ last'.gcalls = 0
            ELSE /\ Cache(p)[k] = Nil /\ last'.at # "cache"
                 /\ (HasGetter(k) => last'.gcalls = 1)]_vars

\* A read served from the cache after a write, for a key that has a getter.
C1_Witness ==
  /\ last.fn = "cachedindex" /\ last.at = "cache" /\ last.self = Ud(1)
  /\ prov[1][last.key].by = "write" /\ HasGetter(last.key)

\* C2 as stated: with a getter for k and no cache entry, a read calls the
\* getter exactly once and stores its result; a read after a getter-resolved
\* read, with no write in between, calls no getter and returns that result,
\* whatever the result was.
C2_GetterCalledOnce ==
  [][\A p \in Proxies, k \in AttrKeys : ReadStep(p, k) =>
       /\ (Cache(p)[k] = Nil /\ HasGetter(k))
            => /\ last'.gcalls = 1
               /\ last'.out.kind = "ret"
                    => /\ last'.status = "ret" /\ last'.ret = last'.out.val
                       /\ Cache(p)'[k] = last'.out.val
       /\ prov[p][k].by = "getter"
            => /\ last'.gcalls = 0 /\ last'.status = "ret"
               /\ last'.ret = prov[p][k].val]_vars

\* C2 amended: as C2, but the second read is served from the cache only
\* when the getter returned a non-nil value; a nil result is not stored,
\* and the next read calls the getter again.
C2_GetterCaching ==
  [][\A p \in Proxies, k \in AttrKeys : ReadStep(p, k) =>
       /\ (Cache(p)[k] = Nil /\ HasGetter(k))
            => /\ last'.gcalls = 1
               /\ last'.out.kind = "ret"
                    => /\ last'.status = "ret" /\ last'.ret = last'.out.val
                       /\ Cache(p)'[k] = last'.out.val
       /\ prov[p][k].by = "getter"
            => IF prov[p][k].val # Nil
               THEN /\ last'.gcalls = 0 /\ last'.status = "ret" /\ last'.at = "cache"
                    /\ last'.ret = prov[p][k].val
               ELSE last'.gcalls = 1]_vars

\* A read served from the cache that an earlier getter call filled.
C2_Witness ==
  /\ last.fn = "cachedindex" /\ last.at = "cache" /\ last.gcalls = 0
  /\ prov[1][last.key].by = "getter"

\* C3 as stated: a write whose value is absent or nil fails, and leaves the
\* heap and the proxy's user value as they were.
C3_AbsentOrNilRejected ==
  [][\A p \in Proxies, k \in AttrKeys :
       (WriteStep(p, k) /\ last'.val \in {NoValue, Nil})
         => /\ last'.status = "err"
            /\ heap' = heap /\ uservalue' = uservalue]_vars

\* C3 amended: a write without a value argument fails with the "value
\* expected" argument error before anything is touched; a write of an
\* explicit nil succeeds and unbinds the key.
C3_MissingValueRejected ==
  [][\A p \in Proxies, k \in AttrKeys : WriteStep(p, k) =>
       /\ last'.val = NoValue
            => /\ last'.status = "err" /\ last'.err = ValueExpectedMsg
               /\ heap' = heap /\ uservalue' = uservalue
       /\ last'.val = Nil
            => /\ last'.status = "ret" /\ Cache(p)'[k] = Nil]_vars

\* A write without a value has failed on a proxy whose cache binds the key.
C3_Witness ==
  /\ last.fn = "cachedsetindex" /\ last.val = NoValue /\ last.status = "err"
  /\ Cache(1)[last.key] # Nil

\* C4 as stated: while the reserved key holds no userdata, every read of the
\* wrapping table fails with the corrupted-object error.
C4_CorruptedFailsEveryKey ==
  [][\A k \in TableKeys :
       (WrappedStep(k) /\ Corrupted)
         => (last'.status = "err" /\ last'.err = CorruptedMsg)]_vars

\* C4 amended: while the reserved key holds no userdata, a read of a key
\* that the wrapping table does not bind fails with the corrupted-object
\* error, without a lookup in any userdata and without changing the table;
\* a key the table binds (the reserved key holding a non-userdata value
\* included) is returned from the table.
C4_CorruptedFailsUnboundKeys ==
  [][\A k \in TableKeys :
       (WrappedStep(k) /\ Corrupted)
         => /\ heap' = heap /\ last'.udq = 0
            /\ IF Wrapper[k] # Nil
               THEN last'.status = "ret" /\ last'.at = "local" /\ last'.ret = Wrapper[k]
               ELSE last'.status = "err" /\ last'.err = CorruptedMsg]_vars

\* The corrupted-object error was raised for a table that binds another key.
C4_Witness ==
  /\ last.fn = "wrappedudindex" /\ last.err = CorruptedMsg /\ Corrupted
  /\ \E k \in TableKeys : Wrapper[k] # Nil

\* C5: a read is resolved by the cache if it binds the key, else by the
\* getter if the getters table has one (its result is returned, its error
\* raised), else by the methods table, else it returns nil.
C5_ResolutionOrder ==
  [][\A p \in Proxies, k \in AttrKeys : ReadStep(p, k) =>
       IF Cache(p)[k] # Nil
       THEN /\ last'.status = "ret" /\ last'.at = "cache"
            /\ last'.ret = Cache(p)[k] /\ last'.gcalls = 0
       ELSE IF HasGetter(k)
       THEN /\ last'.gcalls = 1
            /\ IF last'.out.kind = "ret"
               THEN last'.status = "ret" /\ last'.at = "getter" /\ last'.ret = last'.out.val
               ELSE last'.status = "err"
       ELSE /\ last'.gcalls = 0 /\ last'.status = "ret" /\ last'.ret = MethodOf(k)
            /\ last'.at = IF meta["methods"].ty = LUA_TTABLE THEN "methods"
                          ELSE "notfound"]_vars

\* A read resolved by the getter of a key that the methods table binds too.
C5_Witness ==
  /\ last.fn = "cachedindex" /\ last.status = "ret" /\ last.at = "getter"
  /\ MethodOf(last.key) # Nil

\* C6: a read of a key bound only by the methods table returns the method
\* and leaves the cache without an entry; once a getter for the key is
\* added, the next read calls the getter and is not served from the cache.
C6_MethodNotCached ==
  [][\A p \in Proxies, k \in AttrKeys : ReadStep(p, k) =>
       /\ (Cache(p)[k] = Nil /\ ~HasGetter(k) /\ MethodOf(k) # Nil)
            => /\ last'.status = "ret" /\ last'.ret = MethodOf(k)
               /\ Cache(p)' = Cache(p)
       /\ (prov[p][k].by = "method" /\ HasGetter(k))
            => /\ last'.gcalls = 1 /\ last'.at # "cache"
               /\ last'.out.kind = "ret"
                    => (last'.at = "getter" /\ last'.ret = last'.out.val)]_vars

\* A getter was added for a key whose last read returned the method.
C6_Witness ==
  /\ last.fn = "addgetter" /\ prov[1][last.key].by = "method"
  /\ prov[1][last.key].val = MethodOf(last.key)

\* C7: every key bound in a proxy's cache holds the value of the last
\* write of that key or the result of the last successful getter call for
\* it, whichever came later; a function value is there only by a write.
C7_CacheProvenance ==
  \A p \in Proxies, k \in AttrKeys :
    Cache(p)[k] # Nil
      => /\ prov[p][k].by \in {"write", "getter"}
         /\ Cache(p)[k] = prov[p][k].val
         /\ Cache(p)[k].ty = LUA_TFUNCTION => prov[p][k].by = "write"

\* A cache holding one getter result and one written value.
C7_Witness ==
  /\ Cache(1)[K1] # Nil /\ prov[1][K1].by = "getter"
  /\ Cache(1)[K2] # Nil /\ prov[1][K2].by = "write"
  /\ MethodOf(K1) # Nil

\* C8: a caching table is created only for a proxy that has none, and is
\* then a new, separate table; once a proxy has one, no call replaces it or
\* creates another, and a call changes no entry but that of its own key.
C8_BootstrapIdempotent ==
  [][\A p \in Proxies :
       /\ uservalue[p] # Nil
            => /\ uservalue'[p] = uservalue[p]
               /\ (last'.self = Ud(p) => Len(heap') = Len(heap))
               /\ \A k \in TableKeys :
                    Cache(p)'[k] # Cache(p)[k]
                      => /\ last'.fn \in {"cachedindex", "cachedsetindex"}
                         /\ last'.self = Ud(p) /\ last'.key = k
       /\ uservalue[p] = Nil /\ uservalue'[p] # Nil
            => /\ last'.fn \in {"cachedindex", "cachedsetindex"} /\ last'.self = Ud(p)
               /\ uservalue'[p] = Tbl(Len(heap) + 1) /\ Len(heap') = Len(heap) + 1
               /\ \A k \in TableKeys : k # last'.key => Cache(p)'[k] = Nil]_vars

\* A write of K2 has returned on a proxy whose cache still binds K1.
C8_Witness ==
  /\ last.fn = "cachedsetindex" /\ last.status = "ret" /\ last.key = K2
  /\ last.self = Ud(1) /\ Cache(1)[K1] # Nil /\ Cache(1)[K2] # Nil

\* C9: a read of a key the wrapping table does not bind asks the wrapped
\* userdata once and, given a non-nil value, returns it and binds the key
\* to it; later reads return that value from the table without asking the
\* userdata, until Lua code assigns the key.
C9_WrappedSelfCache ==
  [][\A k \in AttrKeys : WrappedStep(k) =>
       /\ (Wrapper[k] = Nil /\ ~Corrupted)
            => /\ last'.udq = 1
               /\ (last'.out.kind = "ret" /\ last'.out.val # Nil)
                    => /\ last'.status = "ret" /\ last'.ret = last'.out.val
                       /\ Wrapper'[k] = last'.out.val
       /\ wprov[k].by = "wrapped"
            => /\ last'.status = "ret" /\ last'.at = "local"
               /\ last'.ret = wprov[k].val /\ last'.udq = 0]_vars

\* A read served from the wrapping table that an earlier delegation filled.
C9_Witness ==
  /\ last.fn = "wrappedudindex" /\ last.at = "local" /\ last.key \in AttrKeys
  /\ wprov[last.key].by = "wrapped"

\* C10: when the getter called by a read raises an error, the read raises
\* that error value and the cache is left as it was; the read of the key
\* that follows calls the getter again.
C10_GetterFailure ==
  [][\A p \in Proxies, k \in AttrKeys : ReadStep(p, k) =>
       /\ (Cache(p)[k] = Nil /\ HasGetter(k) /\ last'.out.kind = "err")
            => /\ last'.status = "err" /\ last'.err = last'.out.val
               /\ Cache(p)' = Cache(p)
       /\ (last.fn = "cachedindex" /\ last.self = Ud(p) /\ last.key = k
             /\ last.status = "err" /\ last.gcalls = 1)
            => last'.gcalls = 1]_vars

\* A read has failed with the error its getter raised.
C10_Witness ==
  /\ last.fn = "cachedindex" /\ last.status = "err" /\ last.gcalls = 1
  /\ last.err = NativeErr /\ Cache(1)[last.key] = Nil

\* C11: a read of a key that the cache, the getters table and the methods
\* table all lack returns nil without an error, calls nothing and leaves
\* the cache without an entry, whether or not the class has a getters or a
\* methods table.
C11_NotFound ==
  [][\A p \in Proxies, k \in AttrKeys :
       (ReadStep(p, k) /\ Cache(p)[k] = Nil /\ ~HasGetter(k) /\ MethodOf(k) = Nil)
         => /\ last'.status = "ret" /\ last'.ret = Nil /\ last'.gcalls = 0
            /\ Cache(p)' = Cache(p)
            /\ \A i \in 1..Len(heap) : heap'[i] = heap[i]]_vars

\* Nil was returned for a class with neither a getters nor a methods table.
C11_Witness ==
  /\ last.fn = "cachedindex" /\ last.status = "ret" /\ last.ret = Nil
  /\ last.at = "notfound" /\ meta["getters"] = Nil /\ meta["methods"] = Nil

\* The classification of a logged read: served from the cache, freshly
\* computed by a getter, taken from the methods table, or absent.
Classification(l) ==
  IF l.at = "cache" THEN "cached"
  ELSE IF l.gcalls > 0 THEN "fresh"
  ELSE IF l.at = "methods" /\ l.ret # Nil THEN "method"
  ELSE "absent"

\* A read of key k on proxy p directly follows a read of the same key on the
\* same proxy, and the native state did not change in between: a getter
\* that runs again produces what it produced before.
RepeatedRead(p, k) ==
  /\ ReadStep(p, k)
  /\ last.fn = "cachedindex" /\ last.self = Ud(p) /\ last.key = k
  /\ (last.gcalls > 0 /\ last'.gcalls > 0) => last'.out = last.out

\* C12, as stated: a repeated read of the same key with no write in between
\* and unchanged native state has the classification of the read before it.
C12_SameClassification ==
  [][\A p \in Proxies, k \in AttrKeys :
       RepeatedRead(p, k) => Classification(last') = Classification(last)]_vars

\* C12, amended: a read freshly computed by a getter that returned a
\* non-nil value is followed by a cached read of that same value; in every
\* other case the repeated read has the classification and the outcome of
\* the read before it.
C12_ClassificationSettles ==
  [][\A p \in Proxies, k \in AttrKeys :
       RepeatedRead(p, k) =>
         IF Classification(last) = "fresh" /\ last.status = "ret" /\ last.ret # Nil
         THEN /\ Classification(last') = "cached"
              /\ last'.status = "ret" /\ last'.ret = last.ret
         ELSE /\ Classification(last') = Classification(last)
              /\ last'.status = last.status /\ last'.ret = last.ret
              /\ last'.err = last.err]_vars

\* A read was served from the cache with the value a getter computed for the
\* same key, while the other key is still resolved by the methods table.
C12_Witness ==
  /\ last.fn = "cachedindex" /\ last.self = Ud(1) /\ last.key = K2
  /\ Classification(last) = "cached"
  /\ prov[1][K2].by = "getter" /\ last.ret = prov[1][K2].val
  /\ MethodOf(K1) # Nil

\* C14: a successful write calls no getter and no method and changes nothing
\* but the binding of its key in the cache of its proxy, attaching an empty
\* cache first when the proxy had none: every other key of that cache keeps
\* its value, every table that existed before is unchanged apart from that
\* one binding, and the class with its getters and methods is unchanged.
C14_WriteFrame ==
  [][\A p \in Proxies, k \in AttrKeys :
       (WriteStep(p, k) /\ last'.status = "ret") =>
         /\ last'.gcalls = 0 /\ last'.udq = 0
         /\ meta' = meta
         /\ uservalue'[p].ty = LUA_TTABLE
         /\ uservalue[p] # Nil => uservalue'[p] = uservalue[p]
         /\ uservalue[p] = Nil =>
              uservalue'[p].id = Len(heap) + 1 /\ Len(heap') = Len(heap) + 1
         /\ \A q \in Proxies \ {p} : uservalue'[q] = uservalue[q]
         /\ Cache(p)' = [Cache(p) EXCEPT ![k] = last'.val]
         /\ \A i \in 1..Len(heap) :
              i # uservalue'[p].id => heap'[i] = heap[i]]_vars

\* A write of the first key succeeded on a proxy whose cache also binds the
\* second key, in a class whose getters and methods tables are populated.
C14_Witness ==
  /\ last.fn = "cachedsetindex" /\ last.status = "ret" /\ last.key = K1
  /\ last.self = Ud(1) /\ Cache(1)[K2] # Nil
  /\ HasGetter(K1) /\ MethodOf(K1) # Nil

\* C16: a read through a wrapping table changes that table only when the
\* wrapped userdata yields a non-nil value, and then only by binding the key
\* read to that value; when the table binds the key itself, when the wrapped
\* userdata is missing and when the lookup yields nil or fails, nothing is
\* changed, so a key that was not found is looked up in the wrapped userdata
\* again by the read that follows.
C16_WrappedReadFrame ==
  [][\A k \in TableKeys :
       WrappedStep(k) =>
         /\ uservalue' = uservalue /\ meta' = meta
         /\ IF last'.status = "ret" /\ last'.at = "wrapped"
            THEN /\ last'.out.val # Nil
                 /\ heap' = [heap EXCEPT ![WrapperId][k] = last'.out.val]
            ELSE heap' = heap
         /\ (/\ last.fn = "wrappedudindex" /\ last.self = Tbl(WrapperId)
             /\ last.key = k /\ last.status = "ret" /\ last.at = "notfound")
              => last'.udq = 1]_vars

\* A key was not found in the wrapped userdata by a read through a wrapping
\* table that binds the other attribute key, and the key is still unbound.
C16_Witness ==
  /\ last.fn = "wrappedudindex" /\ last.self = Tbl(WrapperId)
  /\ last.status = "ret" /\ last.at = "notfound" /\ last.udq = 1
  /\ last.key \in AttrKeys /\ Wrapper[last.key] = Nil
  /\ \E k \in AttrKeys \ {last.key} : Wrapper[k] # Nil

\* C17: on every path of hslua_cachedindex, whether the getters and the
\* methods metafield is a table, another value or missing, no stack access
\* is out of range, the stack never gets lower than the two arguments, the
\* table that lua_rawset(L, 3) stores the getter result into is the cache of
\* the proxy, and the value on top at the return is the one the path is to
\* return: the cached value, the getter result, the methods entry, or nil.
C17_StackDiscipline ==
  [][\A p \in Proxies, k \in AttrKeys :
       ReadStep(p, k) =>
         /\ last'.status \in {"ret", "err"}
         /\ last'.low >= 2
         /\ last'.status = "err" => last'.gcalls = 1 /\ last'.err = last'.out.val
         /\ last'.status = "ret" =>
              /\ last'.height >= 3
              /\ last'.at \in {"cache", "getter", "methods", "notfound"}
              /\ last'.at = "cache" => last'.ret = Cache(p)[k] /\ last'.ret # Nil
              /\ last'.at = "getter" =>
                   /\ meta["getters"].ty = LUA_TTABLE
                   /\ last'.ret = last'.out.val
                   /\ last'.wrote = uservalue'[p] /\ last'.wrote.ty = LUA_TTABLE
              /\ last'.at = "methods" =>
                   meta["methods"].ty = LUA_TTABLE /\ last'.ret = MethodOf(k)
              /\ last'.at = "notfound" =>
                   meta["methods"].ty # LUA_TTABLE /\ last'.ret = Nil]_vars

\* A read returned nil from the last return statement for a class whose
\* getters metafield is not a table and whose methods metafield is missing.
C17_Witness ==
  /\ last.fn = "cachedindex" /\ last.status = "ret" /\ last.at = "notfound"
  /\ last.low = 2 /\ last.height = 4
  /\ meta["getters"] = Num(0) /\ meta["methods"] = Nil

\* A call on proxy p was made.
ProxyCall(p) ==
  /\ last'.tick # last.tick
  /\ last'.fn \in {"cachedindex", "cachedsetindex"} /\ last'.self = Ud(p)

\* C15: two proxies of one class never have the same caching table, and a
\* read or a write on one proxy leaves the other proxy's user value, the
\* contents of its cache and every table but the caller's own cache
\* unchanged.
C15_CacheIsolation ==
  [][\A p \in Proxies, q \in Proxies :
       (p # q /\ ProxyCall(p)) =>
         /\ uservalue'[q] = uservalue[q]
         /\ Cache(q)' = Cache(q)
         /\ uservalue'[p] # Nil => uservalue'[p] # uservalue'[q]
         /\ \A i \in 1..Len(heap) : i # uservalue'[p].id => heap'[i] = heap[i]]_vars

\* The two proxies both have a cache binding the key, to different values,
\* and the last call was a successful write on the second proxy.
C15_Witness ==
  /\ last.fn = "cachedsetindex" /\ last.self = Ud(2) /\ last.status = "ret"
  /\ Cache(1)[K1] # Nil /\ Cache(2)[K1] # Nil /\ Cache(1)[K1] # Cache(2)[K1]

\* hsluaP_get_caching_table was called with proxy p at the index it was given.
HelperStep(p) ==
  /\ last'.tick # last.tick /\ last'.fn = "get_caching_table" /\ last'.self = Ud(p)

\* C18: called with any valid index of the proxy, positive or negative,
\* hsluaP_get_caching_table runs through, leaves the stack exactly one slot
\* higher with the cache of the proxy on top, keeps a cache that exists and
\* otherwise attaches a new empty table to the proxy the index names.
C18_HelperIndex ==
  [][\A p \in Proxies :
       HelperStep(p) =>
         /\ last'.status = "ret"
         /\ last'.height = 3 /\ last'.low = 2
         /\ last'.top = uservalue'[p] /\ uservalue'[p].ty = LUA_TTABLE
         /\ uservalue[p] # Nil => uservalue'[p] = uservalue[p] /\ heap' = heap
         /\ uservalue[p] = Nil =>
              last'.wrote = Ud(p) /\ heap' = Append(heap, EmptyTable)]_vars

\* Key k was bound in the cache at the moment the getter called by the read
\* just logged returned: the getter had bound it.
BoundByGetter(k) ==
  /\ last'.gcalls > 0 /\ last'.out.write # << >>
  /\ last'.out.write[2] = k /\ last'.out.write[3] # Nil

\* C13: a read unbinds no key of the cache, also when the getter it calls
\* writes to the same proxy: a key bound before the read, or bound by the
\* getter while the read ran, is bound when the read has returned or raised.
C13_ReadInsertionOnly ==
  [][\A p \in Proxies, k \in AttrKeys, k2 \in AttrKeys :
       (ReadStep(p, k) /\ (Cache(p)[k2] # Nil \/ BoundByGetter(k2)))
         => Cache(p)'[k2] # Nil]_vars
====
